---- MODULE Spec2Model ----
(***************************************************************************)
(* A model of rqmonitor's job listing path (rqmonitor/utils.py and         *)
(* rqmonitor/bp.py): counting the (queue, registry) partitions, locating   *)
(* the start block of a page, walking the blocks and fetching their jobs,  *)
(* and the search predicate, while workers mutate the store.               *)
(*                                                                         *)
(* resolve_jobs is modelled under two callers.  The "direct" caller gives  *)
(* it what its docstring asks for: blocks with the attributes queue,       *)
(* registry and count, and a search query.  The "api" caller is            *)
(* list_jobs_api as written: it appends plain tuples and passes start and  *)
(* length only.                                                            *)
(*                                                                         *)
(* One request runs from the counting to its response.  A listing of a     *)
(* partition takes two steps, as in the code: the ids of the partition are *)
(* listed, then their records are fetched; the workers may act between any *)
(* two steps.                                                              *)
(*                                                                         *)
(* Beside the listing, the module models delete_workers (the signal sent   *)
(* to a worker, locally or over SSH) under delete_workers_api, the bulk    *)
(* clear delete_all_jobs_in_queues_registries under delete_all_jobs_api,   *)
(* job_count_in_queue_registry over any queue name and status,            *)
(* requeue_all_jobs_in_failed_registry beside other clients of the store,  *)
(* empty_registry as the one script it runs, list_jobs_in_queue_registry   *)
(* over a range of positions, and a caller of resolve_jobs that reads page *)
(* after page with a search query.  Each has its own specification; the    *)
(* variables of the others rest.                                           *)
(***************************************************************************)
EXTENDS Integers, Sequences, FiniteSets, TLC

(***************************************************************************)
(* Bounds of the model.                                                    *)
(***************************************************************************)
MaxJobs == 2
MaxBlocks == 3
MaxStart == 2
MaxLength == 2
MaxNegLength == 1
MaxMutations == 1
MaxCount == 5
MaxSearchJobs == 2
MaxQueryLen == 2

JobIds == 1..MaxJobs

(***************************************************************************)
(* Python values.  None is the absent value; a string is a sequence of     *)
(* one-character strings; a list is a sequence.                            *)
(***************************************************************************)
None == 0

NoQuery == [none |-> TRUE, text |-> <<>>]

Query(s) == [none |-> FALSE, text |-> s]

\* Python's truth value of an optional string: None and "" are false.
Truthy(q) == ~q.none /\ q.text # <<>>

Min(a, b) == IF a < b THEN a ELSE b

Max(a, b) == IF a > b THEN a ELSE b

\* Python's s[:n]: the first n elements, and for a negative n all but the
\* last -n elements.
SlicePrefix(s, n) ==
    IF n >= 0 THEN SubSeq(s, 1, Min(n, Len(s)))
    ELSE SubSeq(s, 1, Max(0, Len(s) + n))

\* Python's "needle in haystack" for strings: the needle occurs at some
\* position, scanned from the left.
RECURSIVE StrContains(_, _)
StrContains(haystack, needle) ==
    IF Len(needle) > Len(haystack) THEN FALSE
    ELSE IF SubSeq(haystack, 1, Len(needle)) = needle THEN TRUE
    ELSE StrContains(Tail(haystack), needle)


(***************************************************************************)
(* The store: every (queue, registry) partition lists job ids in order;    *)
(* a job id that is listed resolves to a job record.  Job records carry a  *)
(* function name and positional arguments.                                 *)
(***************************************************************************)
JobStatus == <<"queued", "finished", "failed", "started", "deferred", "scheduled">>

Queues == {"q1"}

Registries == {"queued", "started", "finished"}

Parts == [queue : Queues, registry : Registries]

\* The job records of the store, by job id: the function name and the
\* positional arguments (a tuple of str) of each.
func_name(job) ==
    CASE job = 1 -> <<"s", "e">>
      [] job = 3 -> <<"S", "e">>
      [] job = 5 -> <<"e">>
      [] OTHER -> <<"p", "u">>

args(job) ==
    CASE job = 3 -> << <<"s">> >>
      [] job = 4 -> << <<"s", "e">> >>
      [] job = 5 -> << <<"s">>, <<"e">> >>
      [] OTHER -> <<>>

\* repr of a str argument: the text between quotes.
Repr(a) == <<"'">> \o a \o <<"'">>

RECURSIVE JoinRepr(_)
JoinRepr(t) ==
    IF t = <<>> THEN <<>>
    ELSE IF Len(t) = 1 THEN Repr(t[1])
    ELSE Repr(t[1]) \o <<",", " ">> \o JoinRepr(Tail(t))

\* str of a tuple: "()", "('a',)", "('a', 'b')".
Str(t) ==
    <<"(">> \o JoinRepr(t) \o (IF Len(t) = 1 THEN <<",">> ELSE <<>>) \o <<")">>

VARIABLES
    store,                  \* [Parts -> Seq(JobIds)]: the ids each partition lists
    requested_queues,       \* the request: the selected queues, in order
    requested_job_status,   \* the request: the selected statuses, in order
    start,                  \* resolve_jobs: first position of the page
    length,                 \* resolve_jobs: size of the page
    search,                 \* the request: the search query
    search_query,           \* resolve_jobs: the search query it was given
    caller,                 \* "api": list_jobs_api; "direct": a call of resolve_jobs
    pc,                     \* where the request is
    job_counts,             \* the blocks counted so far
    start_block,            \* resolve_jobs: the located block
    cursor,                 \* resolve_jobs: the offset of the next listing
    block_index,            \* resolve_jobs: the block being walked
    job_ids,                \* list_jobs_in_queue_registry: the ids listed
    jobs,                   \* resolve_jobs: the jobs collected
    response,               \* what the request returned
    fetched,                \* history: the blocks a listing was issued against
    mutations               \* history: the kinds of the workers' mutations

walkVars == <<store, requested_queues, requested_job_status, start, length, search,
              search_query, caller, pc, job_counts, start_block, cursor, block_index, job_ids,
              jobs, response, fetched, mutations>>

VARIABLES
    workers,                \* the store: the worker record behind each worker id
    ssh_config,             \* the SSH configuration: its host entries, in order
    worker_ids,             \* delete_workers: the ids it was given
    worker_instances,       \* delete_workers: the workers found by key
    worker_index,           \* delete_workers: the workers its loop has taken
    required_host_ip,       \* delete_workers: the address of the worker's host
    alias_index,            \* delete_workers: the SSH host entries its loop has taken
    process_owner,          \* delete_workers: the owner of the remote process
    dpc,                    \* where delete_workers is
    raised,                 \* the exception that left delete_workers
    api_response,           \* what delete_workers_api answered
    dispatch,               \* history: how the loop left each worker
    os_kills,               \* history: the calls of os.kill
    ssh_loads,              \* history: the loads of the SSH configuration
    sessions,               \* history: the SSH sessions opened
    commands                \* history: the remote commands run

workerVars == <<workers, ssh_config, worker_ids, worker_instances, worker_index,
                required_host_ip, alias_index, process_owner, dpc, raised, api_response,
                dispatch, os_kills, ssh_loads, sessions, commands>>

VARIABLES
    attempts,               \* history: the rounds a bulk action has taken
    fail_count,             \* requeue_all_jobs_in_failed_registry: its fail_count
    queue_index,            \* requeue_all_jobs_in_failed_registry: the queues taken
    job_keys                \* the store: the keys of job records and of dependents

bulkVars == <<attempts, fail_count, queue_index, job_keys>>

VARIABLES
    end,                    \* list_jobs_in_queue_registry called alone: its end
    pages                   \* history: the pages a caller of resolve_jobs has read

listVars == <<end, pages>>

vars == <<walkVars, workerVars, bulkVars, listVars>>

\* The ids listed anywhere: the ids that resolve to a job record.
Records(st) == UNION {{st[p][k] : k \in 1..Len(st[p])} : p \in DOMAIN st}

Entries(st, queue, registry) ==
    IF [queue |-> queue, registry |-> registry] \in DOMAIN st
    THEN st[[queue |-> queue, registry |-> registry]]
    ELSE <<>>

RECURSIVE Ascending(_)
Ascending(S) ==
    IF S = {} THEN <<>>
    ELSE LET m == CHOOSE x \in S : \A y \in S : x <= y
         IN <<m>> \o Ascending(S \ {m})

Without(s, job) == SelectSeq(s, LAMBDA x : x # job)

SeqsUpTo(S, n) == UNION {[1..k -> S] : k \in 0..n}

\* queues x statuses, queue-major: the order list_jobs_api counts them in.
RECURSIVE Product(_, _)
Product(qs, sts) ==
    IF qs = <<>> THEN <<>>
    ELSE [k \in 1..Len(sts) |-> [queue |-> Head(qs), registry |-> sts[k]]]
         \o Product(Tail(qs), sts)

requested == Product(requested_queues, requested_job_status)


(***************************************************************************)
(* rqmonitor/utils.py                                                      *)
(***************************************************************************)

Lower(text) == [k \in 1..Len(text) |-> IF text[k] = "S" THEN "s" ELSE text[k]]

\* _apply_job_search comparing without regard to case
apply_job_search_ignoring_case(job, query) ==
    IF ~Truthy(query) THEN TRUE
    ELSE \/ StrContains(Lower(Str(args(job))), Lower(query.text))
         \/ StrContains(Lower(func_name(job)), Lower(query.text))

\* _apply_job_search
apply_job_search(job, query) ==
    IF ~Truthy(query) THEN TRUE
    ELSE StrContains(Str(args(job)), query.text) \/ StrContains(func_name(job), query.text)

\* _apply_jobs_search
apply_jobs_search(js, query) == SelectSeq(js, LAMBDA job : apply_job_search(job, query))

\* Job.fetch_many: the record of each id, None for an id with no record.
fetch_many(ids, records) ==
    [k \in 1..Len(ids) |-> IF ids[k] \in records THEN ids[k] ELSE None]

\* _fetch_many_jobs keeping the None of an id with no record
fetch_many_jobs_keeping_none(ids, records, query) ==
    SelectSeq(fetch_many(ids, records),
              LAMBDA job : job = None \/ apply_job_search(job, query))

\* _fetch_many_jobs
fetch_many_jobs(ids, records, query) ==
    SelectSeq(fetch_many(ids, records),
              LAMBDA job : job # None /\ apply_job_search(job, query))

\* LRANGE / ZRANGE: the elements at positions first..last, both counted from
\* 0 and, when negative, from the end.
RedisRange(s, first, last) ==
    LET n == Len(s)
        a == IF first < 0 THEN Max(n + first, 0) ELSE first
        b == Min(IF last < 0 THEN n + last ELSE last, n - 1)
    IN IF a > b THEN <<>> ELSE SubSeq(s, a + 1, b + 1)

\* registry.get_job_ids(start, end)
registry_get_job_ids(entries, first, last) == RedisRange(entries, first, last)

\* queue.get_job_ids taking its length for the last position
queue_get_job_ids_to_length(entries, offset, len) == RedisRange(entries, offset, len)

\* queue.get_job_ids(offset, length), the listing of queue.get_jobs
queue_get_job_ids(entries, offset, len) ==
    RedisRange(entries, offset, IF len >= 0 THEN offset + (len - 1) ELSE len)

\* list_jobs_in_queue_registry listing every registry of the queue, as
\* list_jobs_in_queue_all_registries does
list_job_ids_all_registries(st, queue, registry, first, last) ==
    RedisRange(Entries(st, queue, "started") \o Entries(st, queue, "finished")
               \o Entries(st, queue, "queued"), first, last)

\* list_jobs_in_queue_registry listing from the head of the partition
list_job_ids_from_head(st, queue, registry, first, last) ==
    IF registry \in {"started", "finished", "failed", "deferred", "scheduled", "queued"}
    THEN RedisRange(Entries(st, queue, registry), 0, last)
    ELSE <<>>

\* list_jobs_in_queue_registry, its listing of ids
list_job_ids(st, queue, registry, first, last) ==
    IF registry \in {"started", "finished", "failed", "deferred", "scheduled"}
    THEN registry_get_job_ids(Entries(st, queue, registry), first, last)
    ELSE IF registry = "queued"
    THEN IF last = -1
         THEN queue_get_job_ids(Entries(st, queue, registry), first, last)
         ELSE queue_get_job_ids(Entries(st, queue, registry), first, last - first + 1)
    ELSE <<>>

\* list_jobs_in_queue_registry, its result from the ids listed
list_jobs_of_ids(registry, ids, records, query) ==
    IF registry \in {"started", "finished", "failed", "deferred", "scheduled"}
    THEN fetch_many_jobs(ids, records, query)
    ELSE IF registry = "queued"
    THEN apply_jobs_search(SelectSeq(fetch_many(ids, records), LAMBDA job : job # None),
                           query)
    ELSE <<>>

\* Queue.redis_queue_namespace_prefix
redis_queue_namespace_prefix == "rq:queue:"

\* a str that names a queue, as its parts: the prefix, when it starts with
\* one, and the rest
Parts_of(queue) ==
    IF queue = "rq:queue:q1" THEN <<redis_queue_namespace_prefix, "q1">> ELSE <<queue>>

\* the str of the parts of a queue name; a name that still holds a prefix
\* names no queue of the store
Joined(parts) ==
    IF Len(parts) = 1 THEN parts[1]
    ELSE IF parts = <<redis_queue_namespace_prefix, "q1">> THEN "rq:queue:q1"
    ELSE "rq:queue:rq:queue:q1"

\* Queue.from_queue_key: the queue whose name is the key without its prefix,
\* whether the store has the queue or not
from_queue_key(queue_key) == Joined(Tail(queue_key))

\* get_queue of a str: the name of the queue it gives
get_queue(queue) ==
    IF Head(Parts_of(queue)) = redis_queue_namespace_prefix
    THEN from_queue_key(Parts_of(queue))
    ELSE from_queue_key(<<redis_queue_namespace_prefix>> \o Parts_of(queue))

\* the count, with -1 for a status that is not known
job_count_or_minus_one(st, queue, registry) ==
    IF registry \in {"started", "finished", "failed", "deferred", "scheduled", "queued"}
    THEN Len(Entries(st, get_queue(queue), registry))
    ELSE -1

\* registry is a registry class or the name of a status
job_count_in_queue_registry(st, queue, registry) ==
    CASE registry \in {"StartedJobRegistry", "started"} ->
             Len(Entries(st, get_queue(queue), "started"))
      [] registry \in {"FinishedJobRegistry", "finished"} ->
             Len(Entries(st, get_queue(queue), "finished"))
      [] registry \in {"FailedJobRegistry", "failed"} ->
             Len(Entries(st, get_queue(queue), "failed"))
      [] registry \in {"DeferredJobRegistry", "deferred"} ->
             Len(Entries(st, get_queue(queue), "deferred"))
      [] registry \in {"ScheduledJobRegistry", "scheduled"} ->
             Len(Entries(st, get_queue(queue), "scheduled"))
      [] registry = "queued" -> Len(Entries(st, get_queue(queue), "queued"))
      [] OTHER -> 0

\* A block of job_counts.  resolve_jobs reads block.count, block.queue and
\* block.registry; list_jobs_api appends plain tuples, whose count attribute
\* is the tuple's method, not a number.
Block(shape, queue, registry, count) ==
    [shape |-> shape, queue |-> queue, registry |-> registry, count |-> count]

\* the loop of resolve_jobs returning after its first round
loop_returns_always(collected, len) == TRUE

\* resolve_jobs, the test that ends its loop: len(jobs) >= length
loop_returns(collected, len) == Len(collected) >= len

\* the loop of resolve_jobs going on to the next block that counted jobs
RECURSIVE next_block_skipping_empty(_, _)
next_block_skipping_empty(counts, i) ==
    IF i + 1 >= Len(counts) \/ counts[i + 2].count > 0 THEN i + 1
    ELSE next_block_skipping_empty(counts, i + 1)

\* resolve_jobs, the block its loop takes after block i: the next one of
\* job_counts[start_block:], whatever its count
next_block(counts, i) == i + 1

\* resolve_jobs returning all it collected
resolve_jobs_return_untruncated(collected, len) == collected

\* resolve_jobs: what it returns of the jobs collected
resolve_jobs_return(collected, len) == SlicePrefix(collected, len)

RECURSIVE find_start_block_loop(_, _, _, _)
find_start_block_loop(counts, from, i, cumulative_count) ==
    IF i >= Len(counts) THEN [error |-> "", block |-> -1, cursor |-> -1]
    ELSE LET block == counts[i + 1]
         IN IF block.shape = "tuple"
            THEN [error |-> "TypeError", block |-> -1, cursor |-> -1]
            ELSE LET c == cumulative_count + block.count
                 IN IF c > from
                    THEN [error |-> "", block |-> i, cursor |-> from - (c - block.count)]
                    ELSE find_start_block_loop(counts, from, i + 1, c)

\* find_start_block stopping at the block whose cumulative count reaches start
RECURSIVE find_start_block_reaching_loop(_, _, _, _)
find_start_block_reaching_loop(counts, from, i, cumulative_count) ==
    IF i >= Len(counts) THEN [error |-> "", block |-> -1, cursor |-> -1]
    ELSE LET c == cumulative_count + counts[i + 1].count
         IN IF c >= from
            THEN [error |-> "", block |-> i, cursor |-> from - cumulative_count]
            ELSE find_start_block_reaching_loop(counts, from, i + 1, c)

find_start_block_reaching(counts, from) ==
    find_start_block_reaching_loop(counts, from, 0, 0)

\* find_start_block comparing each block's own count, not the cumulative one
RECURSIVE find_start_block_own_count_loop(_, _, _)
find_start_block_own_count_loop(counts, from, i) ==
    IF i >= Len(counts) THEN [error |-> "", block |-> -1, cursor |-> -1]
    ELSE IF counts[i + 1].count > from
         THEN [error |-> "", block |-> i, cursor |-> from]
         ELSE find_start_block_own_count_loop(counts, from, i + 1)

find_start_block_own_count(counts, from) == find_start_block_own_count_loop(counts, from, 0)

\* find_start_block taking the offset from the cumulative count with the block
RECURSIVE find_start_block_offset_slip_loop(_, _, _, _)
find_start_block_offset_slip_loop(counts, from, i, cumulative_count) ==
    IF i >= Len(counts) THEN [error |-> "", block |-> -1, cursor |-> -1]
    ELSE LET c == cumulative_count + counts[i + 1].count
         IN IF c > from
            THEN [error |-> "", block |-> i, cursor |-> from - c]
            ELSE find_start_block_offset_slip_loop(counts, from, i + 1, c)

find_start_block_offset_slip(counts, from) ==
    find_start_block_offset_slip_loop(counts, from, 0, 0)

find_start_block(counts, from) == find_start_block_loop(counts, from, 0, 0)

(***************************************************************************)
(* delete_workers: the workers of the store, the hosts, the SSH            *)
(* configuration and the remote commands.  A text is a sequence of words.  *)
(***************************************************************************)
\* an optional name (a hostname, a user): None or a str
NoName == [none |-> TRUE, text |-> ""]

Name(x) == [none |-> FALSE, text |-> x]

\* an optional text: None or a str
Absent == [none |-> TRUE, text |-> <<>>]

Some(t) == [none |-> FALSE, text |-> t]

Whitespace == {" ", "\n", "\t"}

RECURSIVE StripLeft(_)
StripLeft(t) ==
    IF t # <<>> /\ Head(t) \in Whitespace THEN StripLeft(Tail(t)) ELSE t

RECURSIVE StripRight(_)
StripRight(t) ==
    IF t # <<>> /\ t[Len(t)] \in Whitespace
    THEN StripRight(SubSeq(t, 1, Len(t) - 1))
    ELSE t

\* str.strip(" \n\t")
Strip(t) == StripRight(StripLeft(t))

WorkerIds == {"w1", "w2"}

pid_of(worker_id) == IF worker_id = "w1" THEN 101 ELSE 102

SIGINT == 2

\* a worker of the store: its name, the hostname it recorded and its pid
NoWorker == [none |-> TRUE, name |-> "", hostname |-> NoName, pid |-> 0]

Worker(name, hostname) ==
    [none |-> FALSE, name |-> name, hostname |-> hostname, pid |-> pid_of(name)]

\* socket.gethostname()
gethostname == "local"

Hostnames == {"local", "hostA", "hostB", "gone"}

\* socket.gethostbyname: the address of a host, or socket.gaierror
gethostbyname(hostname) ==
    CASE hostname = "local" -> [error |-> "", ip |-> "10.0.0.9"]
      [] hostname = "hostA" -> [error |-> "", ip |-> "10.0.0.1"]
      [] hostname = "hostB" -> [error |-> "", ip |-> "10.0.0.2"]
      [] OTHER -> [error |-> "gaierror", ip |-> ""]

WorkerRecords(worker_id) ==
    {NoWorker, Worker(worker_id, NoName)}
        \cup {Worker(worker_id, Name(h)) : h \in Hostnames}

\* the host entries an SSH configuration may hold: the alias, its HostName
\* and its User
HostEntries ==
    {[alias |-> "a1", hostname |-> "10.0.0.1", user |-> Name("deploy")],
     [alias |-> "a2", hostname |-> "10.0.0.1", user |-> NoName],
     [alias |-> "b1", hostname |-> "hostB", user |-> Name("deploy")]}

\* Worker.redis_worker_namespace_prefix + worker_id
attach_rq_worker_prefix(worker_id) == <<"rq:worker:", worker_id>>

\* Worker.find_by_key: the worker behind the key, None when the store has
\* no such key
find_by_key(table, worker_key) ==
    IF worker_key[2] \in DOMAIN table THEN table[worker_key[2]] ELSE NoWorker

\* the kill on the same instance, never taken
on_same_instance_never(requested_hostname) == FALSE

\* socket.gethostname() == requested_hostname
on_same_instance(requested_hostname) == gethostname = requested_hostname.text

\* any host entry taken for the worker's host
address_matches_any(available_host_ip, required) == TRUE

\* available_host_ip == required_host_ip
address_matches(available_host_ip, required) == available_host_ip = required

\* the result of a remote command: the command, whether its output was
\* hidden, its exit code and its streams
Result(command, hide, exited, stdout, stderr) ==
    [command |-> command, hide |-> hide, exited |-> exited,
     stdout |-> stdout, stderr |-> stderr]

\* "ps -o user= -p {0}".format(pid)
ps_command(pid) == [program |-> "ps -o user= -p", signal |-> 0, pid |-> pid]

\* "kill -{0} {1}".format(2, pid)
kill_command(pid) == [program |-> "kill", signal |-> 2, pid |-> pid]

OperationNotPermitted == <<"Operation", " ", "not", " ", "permitted">>

AlreadyPrinted == <<" ", "already", " ", "printed">>

\* what the remote "ps -o user= -p pid" may do: print the owner, or fail
PsResults(pid) ==
    {Result(ps_command(pid), FALSE, 0, <<owner, "\n">>, <<>>) : owner \in {"root", "alice"}}
        \cup {Result(ps_command(pid), FALSE, 1, <<>>, <<>>),
              Result(ps_command(pid), FALSE, 1, <<>>,
                     <<"ps:", " ">> \o OperationNotPermitted \o <<"\n">>)}

\* what the remote "kill -2 pid" may do: succeed, or fail
KillResults(pid) ==
    {Result(kill_command(pid), TRUE, 0, <<>>, <<>>),
     Result(kill_command(pid), TRUE, 1, <<>>,
            <<"kill:", " ">> \o OperationNotPermitted \o <<"\n">>),
     Result(kill_command(pid), TRUE, 1, <<>>,
            <<"kill:", " ", "No", " ", "such", " ", "process", "\n">>)}

\* Result.tail of a stream of one line: two newlines, then the line without
\* its end
tail(stream) ==
    <<"\n", "\n">>
        \o (IF stream # <<>> /\ stream[Len(stream)] = "\n"
            THEN SubSeq(stream, 1, Len(stream) - 1)
            ELSE stream)

\* the streams of a failed command, as captured whether hidden or not
streams_for_display_as_captured(result) ==
    [stdout |-> <<"\n", "\n">> \o result.stdout,
     stderr |-> <<"\n", "\n">> \o result.stderr]

\* UnexpectedExit.streams_for_display: a stream that was not hidden was
\* printed when the command ran and is not repeated; a hidden stream is
\* given by its tail
streams_for_display(result) ==
    [stdout |-> IF result.hide THEN tail(result.stdout) ELSE AlreadyPrinted,
     stderr |-> IF result.hide THEN tail(result.stderr) ELSE AlreadyPrinted]

NoException ==
    [type |-> "", template |-> "", user |-> NoName, pid |-> 0, host |-> "",
     owner |-> Absent, stdout |-> <<>>, stderr |-> <<>>]

Exception(type) == [NoException EXCEPT !.type = type]

\* the handler of UnexpectedExit, taking every failure for a failure of
\* permission
unexpected_exit_always_permission(result, ssh_user, pid, host, owner) ==
    [type |-> "RQMonitorException", template |-> "permission", user |-> ssh_user,
     pid |-> pid, host |-> host, owner |-> owner, stdout |-> <<>>, stderr |-> <<>>]

\* the handler of UnexpectedExit: the RQMonitorException it raises
unexpected_exit(result, ssh_user, pid, host, owner) ==
    LET streams == streams_for_display(result)
    IN IF StrContains(Strip(streams.stderr), OperationNotPermitted)
       THEN [type |-> "RQMonitorException", template |-> "permission",
             user |-> ssh_user, pid |-> pid, host |-> host, owner |-> owner,
             stdout |-> <<>>, stderr |-> <<>>]
       ELSE [type |-> "RQMonitorException", template |-> "unexpected_exit",
             user |-> NoName, pid |-> 0, host |-> "", owner |-> Absent,
             stdout |-> streams.stdout, stderr |-> streams.stderr]

\* no bulk action is running
NoBulk ==
    /\ attempts = <<>>
    /\ fail_count = 0
    /\ queue_index = 0
    /\ job_keys = {}

\* no listing of a range and no reading of pages is under way
NoList ==
    /\ end = -1
    /\ pages = <<>>

NoApiResponse == [kind |-> "none", worker_names |-> <<>>]

\* no delete_workers is running
NoDispatch ==
    /\ workers = [w \in WorkerIds |-> NoWorker]
    /\ ssh_config = <<>>
    /\ worker_ids = <<>>
    /\ worker_instances = <<>>
    /\ worker_index = 0
    /\ required_host_ip = ""
    /\ alias_index = 0
    /\ process_owner = Absent
    /\ dpc = "none"
    /\ raised = NoException
    /\ api_response = NoApiResponse
    /\ dispatch = <<>>
    /\ os_kills = <<>>
    /\ ssh_loads = <<>>
    /\ sessions = <<>>
    /\ commands = <<>>

(***************************************************************************)
(* The request.                                                            *)
(***************************************************************************)
\* Every job is listed by one partition or is not in the store; a partition
\* lists its jobs in the order they came.
Nowhere == [queue |-> "", registry |-> ""]

StoreOf(place) == [p \in Parts |-> Ascending({j \in JobIds : place[j] = p})]

NoResponse == [kind |-> "none", data |-> <<>>]

InitWalk ==
    /\ store \in {StoreOf(place) : place \in [JobIds -> Parts \cup {Nowhere}]}
    /\ \/ /\ requested_queues = <<"q1">>
          /\ requested_job_status \in SeqsUpTo(Registries, MaxBlocks)
       \/ /\ requested_queues = <<>>
          /\ requested_job_status = <<"queued">>
    /\ start = 0
    /\ length = 0
    /\ search \in {NoQuery, Query(<<"s", "e">>)}
    /\ caller \in {"api", "direct"}
    /\ search_query = NoQuery
    /\ pc = "count"
    /\ job_counts = <<>>
    /\ start_block = -1
    /\ cursor = -1
    /\ block_index = -1
    /\ job_ids = <<>>
    /\ jobs = <<>>
    /\ response = NoResponse
    /\ fetched = <<>>
    /\ mutations = <<>>
    /\ NoDispatch
    /\ NoList
    /\ NoBulk

\* list_jobs_api: no queue or no status selected
EmptySelection ==
    /\ pc = "count"
    /\ caller = "api"
    /\ requested_queues = <<>> \/ requested_job_status = <<>>
    /\ response' = [kind |-> "page", data |-> <<>>]
    /\ pc' = "done"
    /\ UNCHANGED <<store, requested_queues, requested_job_status, start, length, search,
                   search_query, caller, job_counts, start_block, cursor, block_index,
                   job_ids, jobs, fetched, mutations>>
    /\ UNCHANGED workerVars
    /\ UNCHANGED listVars
    /\ UNCHANGED bulkVars

\* list_jobs_api: one round of the counting loop
CountBlock ==
    /\ pc = "count"
    /\ caller = "api" => requested_queues # <<>> /\ requested_job_status # <<>>
    /\ Len(job_counts) < Len(requested)
    /\ LET part == requested[Len(job_counts) + 1]
           queue_registry_count ==
               job_count_in_queue_registry(store, part.queue, part.registry)
       IN job_counts' = Append(job_counts,
              Block(IF caller = "api" THEN "tuple" ELSE "block",
                    part.queue, part.registry, queue_registry_count))
    /\ UNCHANGED <<store, requested_queues, requested_job_status, start, length, search,
                   search_query, caller, pc, start_block, cursor, block_index,
                   job_ids, jobs, response, fetched, mutations>>
    /\ UNCHANGED workerVars
    /\ UNCHANGED listVars
    /\ UNCHANGED bulkVars

\* resolve_jobs(job_counts, start, length, search_query) up to its loop;
\* list_jobs_api passes the request's start and length and no search query
CallResolveJobs(from, len) ==
    /\ pc = "count"
    /\ caller = "api" => requested_queues # <<>> /\ requested_job_status # <<>>
    /\ Len(job_counts) = Len(requested)
    /\ start' = from
    /\ length' = len
    /\ search_query' = IF caller = "api" THEN NoQuery ELSE search
    /\ LET found == find_start_block(job_counts, from)
       IN IF found.error # ""
          THEN /\ response' = [kind |-> found.error, data |-> <<>>]
               /\ pc' = "done"
               /\ UNCHANGED <<start_block, cursor, block_index>>
          ELSE /\ start_block' = found.block
               /\ cursor' = found.cursor
               /\ IF found.block = -1
                  THEN /\ response' = [kind |-> IF caller = "api" THEN "page" ELSE "list",
                                        data |-> jobs]
                       /\ pc' = "done"
                       /\ UNCHANGED block_index
                  ELSE /\ block_index' = found.block
                       /\ pc' = "list"
                       /\ UNCHANGED response
    /\ UNCHANGED <<store, requested_queues, requested_job_status, search, caller,
                   job_counts, job_ids, jobs, fetched, mutations>>
    /\ UNCHANGED workerVars
    /\ UNCHANGED listVars
    /\ UNCHANGED bulkVars

\* list_jobs_in_queue_registry: the ids of the block from the cursor on
ListJobIds ==
    /\ pc = "list"
    /\ LET block == job_counts[block_index + 1]
       IN job_ids' = list_job_ids(store, block.queue, block.registry, cursor, -1)
    /\ fetched' = Append(fetched, block_index)
    /\ pc' = "fetch"
    /\ UNCHANGED <<store, requested_queues, requested_job_status, start, length, search,
                   search_query, caller, job_counts, start_block, cursor, block_index,
                   jobs, response, mutations>>
    /\ UNCHANGED workerVars
    /\ UNCHANGED listVars
    /\ UNCHANGED bulkVars

\* list_jobs_in_queue_registry: the records of the ids; then the rest of the
\* round of resolve_jobs' loop
FetchJobs ==
    /\ pc = "fetch"
    /\ LET block == job_counts[block_index + 1]
           current_block_jobs ==
               list_jobs_of_ids(block.registry, job_ids, Records(store), search_query)
           extended == jobs \o current_block_jobs
       IN /\ jobs' = extended
          /\ IF \/ loop_returns(extended, length)
                \/ next_block(job_counts, block_index) >= Len(job_counts)
             THEN /\ response' = [kind |-> IF caller = "api" THEN "page" ELSE "list",
                                   data |-> resolve_jobs_return(extended, length)]
                  /\ pc' = "done"
                  /\ UNCHANGED block_index
             ELSE /\ block_index' = next_block(job_counts, block_index)
                  /\ pc' = "list"
                  /\ UNCHANGED response
    /\ cursor' = 0
    /\ UNCHANGED <<store, requested_queues, requested_job_status, start, length, search,
                   search_query, caller, job_counts, start_block, job_ids, fetched,
                   mutations>>
    /\ UNCHANGED workerVars
    /\ UNCHANGED listVars
    /\ UNCHANGED bulkVars

(***************************************************************************)
(* The workers, which run beside the request.                              *)
(***************************************************************************)
WorkerRuns ==
    /\ pc \in {"list", "fetch"} \/ (pc = "count" /\ job_counts # <<>>)
    /\ Len(mutations) < MaxMutations

\* a job is deleted: its entry and its record go
WorkerRemove(job) ==
    /\ WorkerRuns
    /\ job \in Records(store)
    /\ store' = [p \in Parts |-> Without(store[p], job)]
    /\ mutations' = Append(mutations, "remove")
    /\ UNCHANGED <<requested_queues, requested_job_status, start, length, search,
                   search_query, caller, pc, job_counts, start_block, cursor,
                   block_index, job_ids, jobs, response, fetched>>
    /\ UNCHANGED workerVars
    /\ UNCHANGED listVars
    /\ UNCHANGED bulkVars

\* a job moves to another partition, where it is listed last
WorkerMove(job, to) ==
    /\ WorkerRuns
    /\ job \in Records(store)
    /\ \A k \in 1..Len(store[to]) : store[to][k] # job
    /\ store' = [p \in Parts |->
                    IF p = to THEN Append(store[p], job) ELSE Without(store[p], job)]
    /\ mutations' = Append(mutations, "move")
    /\ UNCHANGED <<requested_queues, requested_job_status, start, length, search,
                   search_query, caller, pc, job_counts, start_block, cursor,
                   block_index, job_ids, jobs, response, fetched>>
    /\ UNCHANGED workerVars
    /\ UNCHANGED listVars
    /\ UNCHANGED bulkVars

\* a new job is enqueued
WorkerAdd(job, to) ==
    /\ WorkerRuns
    /\ job \notin Records(store)
    /\ store' = [store EXCEPT ![to] = Append(@, job)]
    /\ mutations' = Append(mutations, "add")
    /\ UNCHANGED <<requested_queues, requested_job_status, start, length, search,
                   search_query, caller, pc, job_counts, start_block, cursor,
                   block_index, job_ids, jobs, response, fetched>>
    /\ UNCHANGED workerVars
    /\ UNCHANGED listVars
    /\ UNCHANGED bulkVars

Next ==
    \/ EmptySelection
    \/ CountBlock
    \/ \E from \in 0..MaxStart, len \in (-MaxNegLength)..MaxLength :
           CallResolveJobs(from, len)
    \/ ListJobIds
    \/ FetchJobs
    \/ \E job \in JobIds : WorkerRemove(job)
    \/ \E job \in JobIds, to \in Parts : WorkerMove(job, to)
    \/ \E job \in JobIds, to \in Parts : WorkerAdd(job, to)

Spec == InitWalk /\ [][Next]_vars


(***************************************************************************)
(* find_start_block on its own, over any list of counts.                   *)
(***************************************************************************)
EmptyStore == [p \in Parts |-> <<>>]

InitLocate ==
    /\ store = EmptyStore
    /\ requested_queues = <<>>
    /\ requested_job_status = <<>>
    /\ start = 0
    /\ length = 0
    /\ search = NoQuery
    /\ search_query = NoQuery
    /\ caller = "direct"
    /\ pc = "locate"
    /\ job_counts \in {[k \in 1..Len(counts) |-> Block("block", "q1", "queued", counts[k])] :
                          counts \in SeqsUpTo(0..MaxCount, MaxBlocks)}
    /\ start_block = -1
    /\ cursor = -1
    /\ block_index = -1
    /\ job_ids = <<>>
    /\ jobs = <<>>
    /\ response = NoResponse
    /\ fetched = <<>>
    /\ mutations = <<>>
    /\ NoDispatch
    /\ NoList
    /\ NoBulk

Locate(from) ==
    /\ pc = "locate"
    /\ start' = from
    /\ LET found == find_start_block(job_counts, from)
       IN /\ start_block' = found.block
          /\ cursor' = found.cursor
    /\ pc' = "located"
    /\ UNCHANGED <<store, requested_queues, requested_job_status, length, search,
                   search_query, caller, job_counts, block_index, job_ids, jobs,
                   response, fetched, mutations>>
    /\ UNCHANGED workerVars
    /\ UNCHANGED listVars
    /\ UNCHANGED bulkVars

NextLocate == \E from \in 0..(MaxCount * MaxBlocks + 1) : Locate(from)

SpecLocate == InitLocate /\ [][NextLocate]_vars

(***************************************************************************)
(* The search on its own, over lists of job records and queries.           *)
(***************************************************************************)
TableJobs == {1, 2, 3, 4, 5}

Alphabet == {"s", "e", "S", "p", "'", ",", "("}

InitSearch ==
    /\ store = EmptyStore
    /\ requested_queues = <<>>
    /\ requested_job_status = <<>>
    /\ start = 0
    /\ length = 0
    /\ search = NoQuery
    /\ search_query \in {NoQuery} \cup {Query(t) : t \in SeqsUpTo(Alphabet, MaxQueryLen)}
    /\ caller = "direct"
    /\ pc = "search"
    /\ job_counts = <<>>
    /\ start_block = -1
    /\ cursor = -1
    /\ block_index = -1
    /\ job_ids \in SeqsUpTo(TableJobs, MaxSearchJobs)
    /\ jobs = <<>>
    /\ response = NoResponse
    /\ fetched = <<>>
    /\ mutations = <<>>
    /\ NoDispatch
    /\ NoList
    /\ NoBulk

\* _apply_jobs_search on the jobs whose ids are job_ids
ApplySearch ==
    /\ pc = "search"
    /\ jobs' = apply_jobs_search(job_ids, search_query)
    /\ pc' = "searched"
    /\ UNCHANGED <<store, requested_queues, requested_job_status, start, length, search,
                   search_query, caller, job_counts, start_block, cursor, block_index,
                   job_ids, response, fetched, mutations>>
    /\ UNCHANGED workerVars
    /\ UNCHANGED listVars
    /\ UNCHANGED bulkVars

NextSearch == ApplySearch

SpecSearch == InitSearch /\ [][NextSearch]_vars


(***************************************************************************)
(* job_count_in_queue_registry on its own, over any queue name and status. *)
(***************************************************************************)
QueueArgs == {"q1", "rq:queue:q1", "nope"}

RegistryArgs ==
    {"queued", "started", "finished", "failed", "deferred", "scheduled",
     "StartedJobRegistry", "FinishedJobRegistry", "FailedJobRegistry",
     "DeferredJobRegistry", "ScheduledJobRegistry", "bogus", ""}

InitCount ==
    /\ store \in {StoreOf(place) : place \in [JobIds -> Parts \cup {Nowhere}]}
    /\ requested_queues \in {<<queue>> : queue \in QueueArgs}
    /\ requested_job_status \in {<<registry>> : registry \in RegistryArgs}
    /\ start = 0
    /\ length = 0
    /\ search = NoQuery
    /\ search_query = NoQuery
    /\ caller = "direct"
    /\ pc = "count"
    /\ job_counts = <<>>
    /\ start_block = -1
    /\ cursor = -1
    /\ block_index = -1
    /\ job_ids = <<>>
    /\ jobs = <<>>
    /\ response = NoResponse
    /\ fetched = <<>>
    /\ mutations = <<>>
    /\ NoDispatch
    /\ NoList
    /\ NoBulk

NextCount == CountBlock

SpecCount == InitCount /\ [][NextCount]_vars

(***************************************************************************)
(* delete_all_jobs_api and delete_all_jobs_in_queues_registries.           *)
(***************************************************************************)
MaxBulkQueues == 2
MaxPages == 3

MaxRangeJobs == 3

MaxEnd == 3

MaxBulkStatuses == 2

BulkQueues == {"q1", "q2"}

BulkRegistries == {"queued", "failed"}

BulkParts == [queue : BulkQueues, registry : BulkRegistries]

BulkStoreOf(place) == [p \in BulkParts |-> Ascending({j \in JobIds : place[j] = p})]

\* the store with one partition emptied
Emptied(st, queue, registry) ==
    [p \in DOMAIN st |->
        IF p = [queue |-> queue, registry |-> registry] THEN <<>> ELSE st[p]]

\* the key of a job record, redis_job_namespace_prefix..job_id
JobKey(job) == [kind |-> "job", id |-> job]

\* the key of the dependents of a job, prefix..job_id..":dependents"
DependentsKey(job) == [kind |-> "dependents", id |-> job]

\* the keys the script deletes for the entries it pops
DeletedKeys(entries) ==
    UNION {{JobKey(entries[k]), DependentsKey(entries[k])} : k \in 1..Len(entries)}

\* the keys of the job records of the jobs a store lists
JobKeysOf(st) == {JobKey(job) : job \in Records(st)}

\* get_queue(queue).empty()
queue_empty(st, queue) ==
    [error |-> "", store |-> Emptied(st, get_queue(queue), "queued"),
     count |-> Len(Entries(st, get_queue(queue), "queued")),
     deleted |-> DeletedKeys(Entries(st, get_queue(queue), "queued"))]

\* empty_registry leaving the keys of the dependents
empty_registry_leaving_dependents(st, registry_name, queue_name) ==
    [error |-> "", store |-> Emptied(st, queue_name, registry_name),
     count |-> Len(Entries(st, queue_name, registry_name)),
     deleted |-> {JobKey(Entries(st, queue_name, registry_name)[k]) :
                     k \in 1..Len(Entries(st, queue_name, registry_name))}]

\* empty_registry(registry_name, queue_name): the script pops every entry of
\* the registry and deletes its two keys, and returns the number popped; a
\* registry name that is none of the five leaves registry_instance None
empty_registry(st, registry_name, queue_name) ==
    LET queue_instance ==
            from_queue_key(<<redis_queue_namespace_prefix>> \o Parts_of(queue_name))
        entries == Entries(st, queue_instance, registry_name)
    IN IF registry_name \in {"failed", "started", "scheduled", "deferred", "finished"}
       THEN [error |-> "", store |-> Emptied(st, queue_instance, registry_name),
             count |-> Len(entries), deleted |-> DeletedKeys(entries)]
       ELSE [error |-> "AttributeError", store |-> st, count |-> 0, deleted |-> {}]

InitClear ==
    /\ store \in {BulkStoreOf(place) : place \in [JobIds -> BulkParts \cup {Nowhere}]}
    /\ requested_queues \in SeqsUpTo(BulkQueues, MaxBulkQueues)
    /\ requested_job_status \in SeqsUpTo(BulkRegistries \cup {"bogus"}, MaxBulkStatuses)
    /\ start = 0
    /\ length = 0
    /\ search = NoQuery
    /\ search_query = NoQuery
    /\ caller = "api"
    /\ pc = "clear"
    /\ job_counts = <<>>
    /\ start_block = -1
    /\ cursor = -1
    /\ block_index = -1
    /\ job_ids = <<>>
    /\ jobs = <<>>
    /\ response = NoResponse
    /\ fetched = <<>>
    /\ mutations = <<>>
    /\ NoDispatch
    /\ NoList
    /\ attempts = <<>>
    /\ fail_count = 0
    /\ queue_index = 0
    /\ job_keys = JobKeysOf(store)

\* one round of the loops: the partition is emptied, or the clear fails, with
\* the error of the store or with its own, and the exception leaves
\* delete_all_jobs_in_queues_registries and, not being ActionFailed,
\* delete_all_jobs_api
ClearPartition(store_error) ==
    /\ pc = "clear"
    /\ Len(attempts) < Len(requested)
    /\ LET part == requested[Len(attempts) + 1]
           cleared == IF part.registry = "queued"
                      THEN queue_empty(store, part.queue)
                      ELSE empty_registry(store, part.registry, part.queue)
           error == IF cleared.error # "" THEN cleared.error ELSE store_error
       IN /\ attempts' = Append(attempts, [queue |-> part.queue,
                                           registry |-> part.registry,
                                           error |-> error])
          /\ IF error = ""
             THEN /\ store' = cleared.store
                  /\ job_keys' = job_keys \ cleared.deleted
                  /\ UNCHANGED <<pc, response>>
             ELSE /\ response' = [kind |-> error, data |-> <<>>]
                  /\ pc' = "done"
                  /\ UNCHANGED <<store, job_keys>>
    /\ UNCHANGED <<fail_count, queue_index>>
    /\ UNCHANGED <<requested_queues, requested_job_status, start, length, search,
                   search_query, caller, job_counts, start_block, cursor, block_index,
                   job_ids, jobs, fetched, mutations>>
    /\ UNCHANGED workerVars
    /\ UNCHANGED listVars

\* the loops are over: 'Successfully deleted all jobs with status as ... on
\* queues ...'
ClearReturn ==
    /\ pc = "clear"
    /\ Len(attempts) = Len(requested)
    /\ response' = [kind |-> "success", data |-> <<>>]
    /\ pc' = "done"
    /\ UNCHANGED <<store, requested_queues, requested_job_status, start, length, search,
                   search_query, caller, job_counts, start_block, cursor, block_index,
                   job_ids, jobs, fetched, mutations>>
    /\ UNCHANGED workerVars
    /\ UNCHANGED listVars
    /\ UNCHANGED bulkVars

NextClear ==
    \/ \E store_error \in {"", "ConnectionError"} : ClearPartition(store_error)
    \/ ClearReturn

SpecClear == InitClear /\ [][NextClear]_vars


(***************************************************************************)
(* requeue_all_jobs_in_failed_registry(queues), while other clients of the *)
(* store delete failed jobs or requeue them themselves.                    *)
(***************************************************************************)

\* the store lists any jobs, each in one partition and with its record;
\* requeue_failed_jobs_api is about to call
\* requeue_all_jobs_in_failed_registry(requested_queues)
InitRequeue ==
    /\ store \in {BulkStoreOf(place) : place \in [JobIds -> BulkParts \cup {Nowhere}]}
    /\ requested_queues \in SeqsUpTo(BulkQueues, MaxBulkQueues)
    /\ requested_job_status = <<>>
    /\ start = 0
    /\ length = 0
    /\ search = NoQuery
    /\ search_query = NoQuery
    /\ caller = "direct"
    /\ pc = "requeue"
    /\ job_counts = <<>>
    /\ start_block = -1
    /\ cursor = -1
    /\ block_index = -1
    /\ job_ids = <<>>
    /\ jobs = <<>>
    /\ response = NoResponse
    /\ fetched = <<>>
    /\ mutations = <<>>
    /\ NoDispatch
    /\ NoList
    /\ attempts = <<>>
    /\ fail_count = 0
    /\ queue_index = 0
    /\ job_keys = JobKeysOf(store)

\* the store with a job taken from the failed registry of a queue and put at
\* the tail of the queue
Requeued(st, queue, job) ==
    [p \in DOMAIN st |->
        IF p = [queue |-> queue, registry |-> "failed"] THEN Without(st[p], job)
        ELSE IF p = [queue |-> queue, registry |-> "queued"] THEN Append(st[p], job)
        ELSE st[p]]

\* failed_job_registry.requeue(job_id): the job is fetched, which raises
\* NoSuchJobError when it has no record; it is taken from the registry, which
\* raises InvalidJobOperationError when it is not there; it is put on its queue
registry_requeue(st, queue, job) ==
    IF job \notin Records(st)
    THEN [error |-> "NoSuchJobError", store |-> st]
    ELSE IF \A k \in 1..Len(Entries(st, queue, "failed")) :
                Entries(st, queue, "failed")[k] # job
    THEN [error |-> "InvalidJobOperationError", store |-> st]
    ELSE [error |-> "", store |-> Requeued(st, queue, job)]

\* the head of the outer loop: the ids of the failed registry of the next queue
RequeueListFailed ==
    /\ pc = "requeue"
    /\ job_ids = <<>>
    /\ queue_index < Len(requested_queues)
    /\ queue_index' = queue_index + 1
    /\ job_ids' = registry_get_job_ids(
                      Entries(store, get_queue(requested_queues[queue_index + 1]),
                              "failed"), 0, -1)
    /\ UNCHANGED <<store, requested_queues, requested_job_status, start, length, search,
                   search_query, caller, pc, job_counts, start_block, cursor,
                   block_index, jobs, response, fetched, mutations>>
    /\ UNCHANGED workerVars
    /\ UNCHANGED listVars
    /\ UNCHANGED <<attempts, fail_count, job_keys>>

\* one round of the inner loop: the requeue of the next id.  Only
\* InvalidJobOperationError is caught and counted; any other exception leaves
\* the function
RequeueJob ==
    /\ pc = "requeue"
    /\ job_ids # <<>>
    /\ LET queue == requested_queues[queue_index]
           job == Head(job_ids)
           requeued == registry_requeue(store, get_queue(queue), job)
       IN /\ attempts' = Append(attempts, [queue |-> queue, job |-> job,
                                           error |-> requeued.error])
          /\ store' = requeued.store
          /\ job_ids' = Tail(job_ids)
          /\ fail_count' = IF requeued.error = "InvalidJobOperationError"
                           THEN fail_count + 1 ELSE fail_count
          /\ IF requeued.error \in {"", "InvalidJobOperationError"}
             THEN UNCHANGED <<pc, response>>
             ELSE /\ response' = [kind |-> requeued.error, data |-> <<>>]
                  /\ pc' = "done"
    /\ UNCHANGED <<requested_queues, requested_job_status, start, length, search,
                   search_query, caller, job_counts, start_block, cursor, block_index,
                   jobs, fetched, mutations>>
    /\ UNCHANGED workerVars
    /\ UNCHANGED listVars
    /\ UNCHANGED <<queue_index, job_keys>>

\* return fail_count
RequeueReturn ==
    /\ pc = "requeue"
    /\ job_ids = <<>>
    /\ queue_index = Len(requested_queues)
    /\ response' = [kind |-> "count", data |-> <<fail_count>>]
    /\ pc' = "done"
    /\ UNCHANGED <<store, requested_queues, requested_job_status, start, length, search,
                   search_query, caller, job_counts, start_block, cursor, block_index,
                   job_ids, jobs, fetched, mutations>>
    /\ UNCHANGED workerVars
    /\ UNCHANGED listVars
    /\ UNCHANGED bulkVars

\* another client deletes a job: its entry and its record go
ClientDeletes(job) ==
    /\ pc = "requeue"
    /\ Len(mutations) < MaxMutations
    /\ job \in Records(store)
    /\ store' = [p \in DOMAIN store |-> Without(store[p], job)]
    /\ job_keys' = job_keys \ {JobKey(job), DependentsKey(job)}
    /\ mutations' = Append(mutations, [kind |-> "remove", job |-> job])
    /\ UNCHANGED <<requested_queues, requested_job_status, start, length, search,
                   search_query, caller, pc, job_counts, start_block, cursor,
                   block_index, job_ids, jobs, response, fetched>>
    /\ UNCHANGED workerVars
    /\ UNCHANGED listVars
    /\ UNCHANGED <<attempts, fail_count, queue_index>>

\* another client requeues a failed job itself
ClientRequeues(queue, job) ==
    /\ pc = "requeue"
    /\ Len(mutations) < MaxMutations
    /\ registry_requeue(store, queue, job).error = ""
    /\ store' = registry_requeue(store, queue, job).store
    /\ mutations' = Append(mutations, [kind |-> "move", job |-> job])
    /\ UNCHANGED <<requested_queues, requested_job_status, start, length, search,
                   search_query, caller, pc, job_counts, start_block, cursor,
                   block_index, job_ids, jobs, response, fetched>>
    /\ UNCHANGED workerVars
    /\ UNCHANGED listVars
    /\ UNCHANGED bulkVars

NextRequeue ==
    \/ RequeueListFailed
    \/ RequeueJob
    \/ RequeueReturn
    \/ \E job \in JobIds : ClientDeletes(job)
    \/ \E queue \in BulkQueues, job \in JobIds : ClientRequeues(queue, job)

SpecRequeue == InitRequeue /\ [][NextRequeue]_vars


(***************************************************************************)
(* empty_registry(registry_name, queue_name), while workers fail jobs.     *)
(* The body of the script is one step: the store runs a script whole,      *)
(* with no command of another client between two of its commands.          *)
(***************************************************************************)

\* the store lists any jobs, each in one partition and with its record, and
\* holds the dependents key of any of them
InitEmpty ==
    /\ store \in {BulkStoreOf(place) : place \in [JobIds -> BulkParts \cup {Nowhere}]}
    /\ requested_queues = <<>>
    /\ requested_job_status = <<>>
    /\ start = 0
    /\ length = 0
    /\ search = NoQuery
    /\ search_query = NoQuery
    /\ caller = "direct"
    /\ pc = "empty"
    /\ job_counts = <<>>
    /\ start_block = -1
    /\ cursor = -1
    /\ block_index = -1
    /\ job_ids = <<>>
    /\ jobs = <<>>
    /\ response = NoResponse
    /\ fetched = <<>>
    /\ mutations = <<>>
    /\ NoDispatch
    /\ NoList
    /\ attempts = <<>>
    /\ fail_count = 0
    /\ queue_index = 0
    /\ \E with_dependents \in SUBSET Records(store) :
           job_keys = JobKeysOf(store) \cup {DependentsKey(job) : job \in with_dependents}

\* the call, from its first line to its return
EmptyRegistry(registry_name, queue_name) ==
    /\ pc = "empty"
    /\ LET emptied == empty_registry(store, registry_name, queue_name)
       IN /\ attempts' = <<[queue |-> queue_name, registry |-> registry_name,
                            error |-> emptied.error]>>
          /\ store' = emptied.store
          /\ job_keys' = job_keys \ emptied.deleted
          /\ response' = IF emptied.error = ""
                         THEN [kind |-> "count", data |-> <<emptied.count>>]
                         ELSE [kind |-> emptied.error, data |-> <<>>]
    /\ pc' = "emptied"
    /\ UNCHANGED <<requested_queues, requested_job_status, start, length, search,
                   search_query, caller, job_counts, start_block, cursor, block_index,
                   job_ids, jobs, fetched, mutations>>
    /\ UNCHANGED workerVars
    /\ UNCHANGED listVars
    /\ UNCHANGED <<fail_count, queue_index>>

\* a worker fails a job of a queue: the job enters the failed registry
WorkerFails(queue, job) ==
    /\ pc \in {"empty", "emptied"}
    /\ Len(mutations) < MaxMutations
    /\ \E k \in 1..Len(Entries(store, queue, "queued")) :
           Entries(store, queue, "queued")[k] = job
    /\ store' = [p \in DOMAIN store |->
                    IF p = [queue |-> queue, registry |-> "queued"]
                    THEN Without(store[p], job)
                    ELSE IF p = [queue |-> queue, registry |-> "failed"]
                    THEN Append(store[p], job)
                    ELSE store[p]]
    /\ mutations' = Append(mutations, [kind |-> "move", job |-> job])
    /\ UNCHANGED <<requested_queues, requested_job_status, start, length, search,
                   search_query, caller, pc, job_counts, start_block, cursor,
                   block_index, job_ids, jobs, response, fetched>>
    /\ UNCHANGED workerVars
    /\ UNCHANGED listVars
    /\ UNCHANGED bulkVars

NextEmpty ==
    \/ \E registry_name \in BulkRegistries \cup {"started"}, queue_name \in BulkQueues :
           EmptyRegistry(registry_name, queue_name)
    \/ \E queue \in BulkQueues, job \in JobIds : WorkerFails(queue, job)

SpecEmpty == InitEmpty /\ [][NextEmpty]_vars


(***************************************************************************)
(* list_jobs_in_queue_registry(queue, registry, start=start, end=end)      *)
(* called alone, on the queue or on a registry of it.                      *)
(***************************************************************************)
RangeJobIds == 1..MaxRangeJobs

\* the lists of distinct jobs a partition can hold
RangeEntries ==
    {entries \in SeqsUpTo(RangeJobIds, MaxRangeJobs) :
        \A k, l \in 1..Len(entries) : entries[k] = entries[l] => k = l}

\* one partition of q1, the queue or a registry, holds any jobs, each with
\* its record
InitRange ==
    /\ \E registry \in {"queued", "started", "failed"}, entries \in RangeEntries :
           /\ requested_job_status = <<registry>>
           /\ store = [p \in {[queue |-> "q1", registry |-> registry]} |-> entries]
    /\ requested_queues = <<"q1">>
    /\ start = 0
    /\ length = 0
    /\ search = NoQuery
    /\ search_query = NoQuery
    /\ caller = "direct"
    /\ pc = "range"
    /\ job_counts = <<>>
    /\ start_block = -1
    /\ cursor = -1
    /\ block_index = -1
    /\ job_ids = <<>>
    /\ jobs = <<>>
    /\ response = NoResponse
    /\ fetched = <<>>
    /\ mutations = <<>>
    /\ NoDispatch
    /\ NoBulk
    /\ NoList

\* list_jobs_in_queue_registry(queue, registry, None, first, last)
ListRange(first, last) ==
    /\ pc = "range"
    /\ start' = first
    /\ end' = last
    /\ LET queue == requested_queues[1]
           registry == requested_job_status[1]
           ids == list_job_ids(store, queue, registry, first, last)
       IN /\ job_ids' = ids
          /\ jobs' = list_jobs_of_ids(registry, ids, Records(store), search_query)
    /\ pc' = "ranged"
    /\ UNCHANGED <<store, requested_queues, requested_job_status, length, search,
                   search_query, caller, job_counts, start_block, cursor, block_index,
                   response, fetched, mutations>>
    /\ UNCHANGED workerVars
    /\ UNCHANGED bulkVars
    /\ UNCHANGED pages

NextRange ==
    \E first \in 0..MaxStart :
        \E last \in {l \in -1..MaxEnd : l = -1 \/ l >= first} : ListRange(first, last)

SpecRange == InitRange /\ [][NextRange]_vars


(***************************************************************************)
(* A caller of resolve_jobs reading page after page with a search query:   *)
(* start = 0, length, 2 * length, ... over counts taken once, of a store   *)
(* that does not change.                                                   *)
(***************************************************************************)

\* the store lists any jobs; the caller selected partitions of q1 that
\* differ from one another, and searches for a text
InitPages ==
    /\ store \in {StoreOf(place) : place \in [JobIds -> Parts \cup {Nowhere}]}
    /\ requested_queues = <<"q1">>
    /\ requested_job_status \in
           {statuses \in SeqsUpTo(Registries, MaxBlocks) :
               \A k, l \in 1..Len(statuses) : statuses[k] = statuses[l] => k = l}
    /\ start = 0
    /\ length = 0
    /\ search \in {Query(<<"s", "e">>), Query(<<"p">>)}
    /\ caller = "direct"
    /\ search_query = NoQuery
    /\ pc = "count"
    /\ job_counts = <<>>
    /\ start_block = -1
    /\ cursor = -1
    /\ block_index = -1
    /\ job_ids = <<>>
    /\ jobs = <<>>
    /\ response = NoResponse
    /\ fetched = <<>>
    /\ mutations = <<>>
    /\ NoDispatch
    /\ NoBulk
    /\ NoList

\* resolve_jobs has returned a page: the caller keeps it and is about to ask
\* for the next, with the same job_counts
TurnPage ==
    /\ pc = "done"
    /\ response.kind = "list"
    /\ Len(pages) < MaxPages
    /\ pages' = Append(pages, [start |-> start, data |-> response.data])
    /\ pc' = "count"
    /\ start_block' = -1
    /\ cursor' = -1
    /\ block_index' = -1
    /\ job_ids' = <<>>
    /\ jobs' = <<>>
    /\ response' = NoResponse
    /\ fetched' = <<>>
    /\ UNCHANGED <<store, requested_queues, requested_job_status, start, length, search,
                   search_query, caller, job_counts, mutations>>
    /\ UNCHANGED workerVars
    /\ UNCHANGED bulkVars
    /\ UNCHANGED end

\* the caller asks for the page after those it has, each of the same length
ReadPage(from, len) ==
    /\ from = Len(pages) * len
    /\ pages = <<>> \/ len = length
    /\ CallResolveJobs(from, len)

NextPages ==
    \/ CountBlock
    \/ \E from \in 0..(MaxPages * MaxLength), len \in 1..MaxLength : ReadPage(from, len)
    \/ ListJobIds
    \/ FetchJobs
    \/ TurnPage

SpecPages == InitPages /\ [][NextPages]_vars

(***************************************************************************)
(* delete_workers_api and delete_workers.  The walk's variables rest.      *)
(***************************************************************************)
MaxWorkers == 2
MaxAliases == 2

NoWalk ==
    /\ store = EmptyStore
    /\ requested_queues = <<>>
    /\ requested_job_status = <<>>
    /\ start = 0
    /\ length = 0
    /\ search = NoQuery
    /\ search_query = NoQuery
    /\ caller = "direct"
    /\ pc = "none"
    /\ job_counts = <<>>
    /\ start_block = -1
    /\ cursor = -1
    /\ block_index = -1
    /\ job_ids = <<>>
    /\ jobs = <<>>
    /\ response = NoResponse
    /\ fetched = <<>>
    /\ mutations = <<>>

\* the store holds any workers, the SSH configuration any host entries, each
\* once; delete_workers_api is about to call delete_workers(worker_names)
InitDispatch ==
    /\ NoWalk
    /\ NoList
    /\ workers \in {t \in [WorkerIds -> UNION {WorkerRecords(w) : w \in WorkerIds}] :
                       \A w \in WorkerIds : t[w] \in WorkerRecords(w)}
    /\ ssh_config \in {c \in SeqsUpTo(HostEntries, MaxAliases) :
                          \A a, b \in 1..Len(c) : c[a] = c[b] => a = b}
    /\ worker_ids \in SeqsUpTo(WorkerIds, MaxWorkers)
    /\ worker_instances = <<>>
    /\ worker_index = 0
    /\ required_host_ip = ""
    /\ alias_index = 0
    /\ process_owner = Absent
    /\ dpc = "call"
    /\ raised = NoException
    /\ api_response = NoApiResponse
    /\ dispatch = [k \in 1..Len(worker_ids) |-> "pending"]
    /\ os_kills = <<>>
    /\ ssh_loads = <<>>
    /\ sessions = <<>>
    /\ commands = <<>>
    /\ NoBulk

\* the worker the loop is at
worker_instance == worker_instances[worker_index + 1]

\* an exception leaves delete_workers: delete_workers_api catches
\* ActionFailed only, an RQMonitorException goes to the error handler
Raise(exception) ==
    /\ raised' = exception
    /\ dpc' = "raised"
    /\ api_response' = [kind |-> IF exception.type = "RQMonitorException"
                                 THEN "error" ELSE "unhandled",
                        worker_names |-> <<>>]

\* delete_workers returns: delete_workers_api answers 'Successfully deleted
\* worker {worker_names}'
Return ==
    /\ dpc' = "returned"
    /\ api_response' = [kind |-> "success", worker_names |-> worker_ids]
    /\ UNCHANGED raised

\* the loop goes on to its next worker
NextWorkerInstance(how) ==
    /\ dispatch' = [dispatch EXCEPT ![worker_index + 1] = how]
    /\ worker_index' = worker_index + 1
    /\ dpc' = "loop"
    /\ UNCHANGED <<raised, api_response>>

\* the list comprehension: every id is looked up before the loop starts
FindWorkers ==
    /\ dpc = "call"
    /\ worker_instances' =
           [k \in 1..Len(worker_ids) |->
               find_by_key(workers, attach_rq_worker_prefix(worker_ids[k]))]
    /\ dpc' = "loop"
    /\ UNCHANGED <<workers, ssh_config, worker_ids, worker_index, required_host_ip,
                   alias_index, process_owner, raised, api_response, dispatch,
                   os_kills, ssh_loads, sessions, commands>>
    /\ UNCHANGED walkVars
    /\ UNCHANGED listVars
    /\ UNCHANGED bulkVars

\* the loop is over
LoopEnd ==
    /\ dpc = "loop"
    /\ worker_index = Len(worker_instances)
    /\ Return
    /\ UNCHANGED <<workers, ssh_config, worker_ids, worker_instances, worker_index,
                   required_host_ip, alias_index, process_owner, dispatch, os_kills,
                   ssh_loads, sessions, commands>>
    /\ UNCHANGED walkVars
    /\ UNCHANGED listVars
    /\ UNCHANGED bulkVars

\* worker_instance.hostname of a worker that was not found
HostnameOfNone ==
    /\ dpc = "loop"
    /\ worker_index < Len(worker_instances)
    /\ worker_instance.none
    /\ Raise(Exception("AttributeError"))
    /\ dispatch' = [dispatch EXCEPT ![worker_index + 1] = "raised"]
    /\ UNCHANGED <<workers, ssh_config, worker_ids, worker_instances, worker_index,
                   required_host_ip, alias_index, process_owner, os_kills, ssh_loads,
                   sessions, commands>>
    /\ UNCHANGED walkVars
    /\ UNCHANGED listVars
    /\ UNCHANGED bulkVars

\* the hostname is None: logged, and the loop continues
SkipDeletion ==
    /\ dpc = "loop"
    /\ worker_index < Len(worker_instances)
    /\ ~worker_instance.none
    /\ worker_instance.hostname.none
    /\ NextWorkerInstance("skipped")
    /\ UNCHANGED <<workers, ssh_config, worker_ids, worker_instances,
                   required_host_ip, alias_index, process_owner, os_kills, ssh_loads,
                   sessions, commands>>
    /\ UNCHANGED walkVars
    /\ UNCHANGED listVars
    /\ UNCHANGED bulkVars

\* the worker is on the same instance: os.kill(worker_instance.pid,
\* signal_to_pass), which returns or raises the error of the system
KillLocal(error) ==
    /\ dpc = "loop"
    /\ worker_index < Len(worker_instances)
    /\ ~worker_instance.none
    /\ ~worker_instance.hostname.none
    /\ on_same_instance(worker_instance.hostname)
    /\ os_kills' = Append(os_kills, [worker |-> worker_index + 1,
                                     pid |-> worker_instance.pid,
                                     signal |-> SIGINT, error |-> error])
    /\ IF error = ""
       THEN NextWorkerInstance("killed")
       ELSE /\ Raise(Exception(error))
            /\ dispatch' = [dispatch EXCEPT ![worker_index + 1] = "raised"]
            /\ UNCHANGED worker_index
    /\ UNCHANGED <<workers, ssh_config, worker_ids, worker_instances,
                   required_host_ip, alias_index, process_owner, ssh_loads, sessions,
                   commands>>
    /\ UNCHANGED walkVars
    /\ UNCHANGED listVars
    /\ UNCHANGED bulkVars

\* the worker is on another instance: its address is resolved and the SSH
\* configuration is loaded
LoadSshConfig ==
    /\ dpc = "loop"
    /\ worker_index < Len(worker_instances)
    /\ ~worker_instance.none
    /\ ~worker_instance.hostname.none
    /\ ~on_same_instance(worker_instance.hostname)
    /\ LET resolved == gethostbyname(worker_instance.hostname.text)
       IN IF resolved.error # ""
          THEN /\ Raise(Exception(resolved.error))
               /\ dispatch' = [dispatch EXCEPT ![worker_index + 1] = "raised"]
               /\ UNCHANGED <<required_host_ip, alias_index, ssh_loads>>
          ELSE /\ required_host_ip' = resolved.ip
               /\ ssh_loads' = Append(ssh_loads, worker_index + 1)
               /\ alias_index' = 0
               /\ dpc' = "hostnames"
               /\ UNCHANGED <<raised, api_response, dispatch>>
    /\ UNCHANGED <<workers, ssh_config, worker_ids, worker_instances, worker_index,
                   process_owner, os_kills, sessions, commands>>
    /\ UNCHANGED walkVars
    /\ UNCHANGED listVars
    /\ UNCHANGED bulkVars

\* one round of the loop over the host entries: an entry whose HostName is
\* the address gets a Connection; when no entry is left the loop over the
\* workers goes on
LookupHostname ==
    /\ dpc = "hostnames"
    /\ IF alias_index = Len(ssh_config)
       THEN /\ NextWorkerInstance("fell_through")
            /\ UNCHANGED <<alias_index, process_owner>>
       ELSE LET ssh_info == ssh_config[alias_index + 1]
            IN IF address_matches(ssh_info.hostname, required_host_ip)
               THEN /\ process_owner' = Absent
                    /\ dpc' = "ps"
                    /\ UNCHANGED <<alias_index, worker_index, dispatch, raised,
                                   api_response>>
               ELSE /\ alias_index' = alias_index + 1
                    /\ UNCHANGED <<process_owner, dpc, worker_index, dispatch, raised,
                                   api_response>>
    /\ UNCHANGED <<workers, ssh_config, worker_ids, worker_instances,
                   required_host_ip, os_kills, ssh_loads, sessions, commands>>
    /\ UNCHANGED walkVars
    /\ UNCHANGED listVars
    /\ UNCHANGED bulkVars

\* the host entry the Connection was made for
ssh_info_matched == ssh_config[alias_index + 1]

\* the first run opens the session; the session is not established and the
\* error of the SSH library leaves delete_workers
SessionFails(error) ==
    /\ dpc = "ps"
    /\ sessions' = Append(sessions, [worker |-> worker_index + 1,
                                     alias |-> ssh_info_matched.alias,
                                     established |-> FALSE])
    /\ Raise(Exception(error))
    /\ dispatch' = [dispatch EXCEPT ![worker_index + 1] = "raised"]
    /\ UNCHANGED <<workers, ssh_config, worker_ids, worker_instances, worker_index,
                   required_host_ip, alias_index, process_owner, os_kills, ssh_loads,
                   commands>>
    /\ UNCHANGED walkVars
    /\ UNCHANGED listVars
    /\ UNCHANGED bulkVars

\* a remote command is sent and the host does not answer: run has no
\* timeout and waits
HostSilent ==
    /\ dpc \in {"ps", "kill"}
    /\ sessions' = IF dpc = "ps"
                   THEN Append(sessions, [worker |-> worker_index + 1,
                                          alias |-> ssh_info_matched.alias,
                                          established |-> TRUE])
                   ELSE sessions
    /\ commands' = Append(commands,
                       [worker |-> worker_index + 1, alias |-> ssh_info_matched.alias,
                        command |-> IF dpc = "ps" THEN ps_command(worker_instance.pid)
                                    ELSE kill_command(worker_instance.pid),
                        exited |-> -1, stdout |-> <<>>, stderr |-> <<>>])
    /\ dpc' = "waiting"
    /\ dispatch' = [dispatch EXCEPT ![worker_index + 1] = "waiting"]
    /\ UNCHANGED <<workers, ssh_config, worker_ids, worker_instances, worker_index,
                   required_host_ip, alias_index, process_owner, raised, api_response,
                   os_kills, ssh_loads>>
    /\ UNCHANGED walkVars
    /\ UNCHANGED listVars
    /\ UNCHANGED bulkVars

\* the session opens and "ps -o user= -p pid" runs: its stdout is the owner,
\* or it exits with an error and UnexpectedExit is handled
RunPs(result) ==
    /\ dpc = "ps"
    /\ sessions' = Append(sessions, [worker |-> worker_index + 1,
                                     alias |-> ssh_info_matched.alias,
                                     established |-> TRUE])
    /\ commands' = Append(commands,
                       [worker |-> worker_index + 1, alias |-> ssh_info_matched.alias,
                        command |-> result.command, exited |-> result.exited,
                        stdout |-> result.stdout, stderr |-> result.stderr])
    /\ IF result.exited = 0
       THEN /\ process_owner' = Some(Strip(result.stdout))
            /\ dpc' = "kill"
            /\ UNCHANGED <<raised, api_response, dispatch>>
       ELSE /\ Raise(unexpected_exit(result, ssh_info_matched.user, worker_instance.pid,
                                     required_host_ip, process_owner))
            /\ dispatch' = [dispatch EXCEPT ![worker_index + 1] = "raised"]
            /\ UNCHANGED process_owner
    /\ UNCHANGED <<workers, ssh_config, worker_ids, worker_instances, worker_index,
                   required_host_ip, alias_index, os_kills, ssh_loads>>
    /\ UNCHANGED walkVars
    /\ UNCHANGED listVars
    /\ UNCHANGED bulkVars

\* the kill, tried again over the next host entry when it fails
RunKill_retrying(result) ==
    /\ dpc = "kill"
    /\ commands' = Append(commands,
                       [worker |-> worker_index + 1, alias |-> ssh_info_matched.alias,
                        command |-> result.command, exited |-> result.exited,
                        stdout |-> result.stdout, stderr |-> result.stderr])
    /\ IF result.exited = 0
       THEN /\ Return
            /\ dispatch' = [dispatch EXCEPT ![worker_index + 1] = "returned"]
            /\ UNCHANGED alias_index
       ELSE /\ alias_index' = alias_index + 1
            /\ dpc' = "hostnames"
            /\ UNCHANGED <<raised, api_response, dispatch>>
    /\ UNCHANGED <<workers, ssh_config, worker_ids, worker_instances, worker_index,
                   required_host_ip, process_owner, os_kills, ssh_loads, sessions>>
    /\ UNCHANGED walkVars
    /\ UNCHANGED listVars
    /\ UNCHANGED bulkVars

\* "kill -2 pid" runs: when it succeeds delete_workers returns, when it
\* exits with an error UnexpectedExit is handled
RunKill(result) ==
    /\ dpc = "kill"
    /\ commands' = Append(commands,
                       [worker |-> worker_index + 1, alias |-> ssh_info_matched.alias,
                        command |-> result.command, exited |-> result.exited,
                        stdout |-> result.stdout, stderr |-> result.stderr])
    /\ IF result.exited = 0
       THEN /\ Return
            /\ dispatch' = [dispatch EXCEPT ![worker_index + 1] = "returned"]
       ELSE /\ Raise(unexpected_exit(result, ssh_info_matched.user, worker_instance.pid,
                                     required_host_ip, process_owner))
            /\ dispatch' = [dispatch EXCEPT ![worker_index + 1] = "raised"]
    /\ UNCHANGED <<workers, ssh_config, worker_ids, worker_instances, worker_index,
                   required_host_ip, alias_index, process_owner, os_kills, ssh_loads,
                   sessions>>
    /\ UNCHANGED walkVars
    /\ UNCHANGED listVars
    /\ UNCHANGED bulkVars

NextDispatch ==
    \/ FindWorkers
    \/ LoopEnd
    \/ HostnameOfNone
    \/ SkipDeletion
    \/ \E error \in {"", "ProcessLookupError", "PermissionError"} : KillLocal(error)
    \/ LoadSshConfig
    \/ LookupHostname
    \/ \E error \in {"NoValidConnectionsError", "AuthenticationException"} :
           SessionFails(error)
    \/ HostSilent
    \/ dpc = "ps" /\ \E result \in PsResults(worker_instance.pid) : RunPs(result)
    \/ dpc = "kill" /\ \E result \in KillResults(worker_instance.pid) : RunKill(result)

SpecDispatch == InitDispatch /\ [][NextDispatch]_vars


(***************************************************************************)
(* What the claims speak of.                                               *)
(***************************************************************************)
RECURSIVE CumulativeCount(_, _)
\* the sum of the counts of the first k blocks
CumulativeCount(counts, k) ==
    IF k = 0 THEN 0 ELSE CumulativeCount(counts, k - 1) + counts[k].count

TotalCount(counts) == CumulativeCount(counts, Len(counts))

RECURSIVE Concatenation(_, _)
\* the entries of the listed partitions, one partition after the other
Concatenation(st, parts) ==
    IF parts = <<>> THEN <<>>
    ELSE Entries(st, Head(parts).queue, Head(parts).registry)
         \o Concatenation(st, Tail(parts))

\* positions from .. from+len-1 of s, counted from 0
Window(s, from, len) == SubSeq(s, from + 1, Min(from + len, Len(s)))

NoDuplicates(s) == \A a, b \in 1..Len(s) : s[a] = s[b] => a = b

Done == pc = "done" /\ caller = "direct"

\* C1: resolve_jobs returns at most `length` jobs, for every length > 0 and
\* whatever the workers do to the store while it runs.
C1_AtMostLength == (Done /\ length > 0) => Len(response.data) <= length

C1_Witness ==
    /\ Done /\ length > 0
    /\ mutations # <<>>
    /\ Len(jobs) > length
    /\ Len(response.data) = length

\* C2: with no search query and a store that does not change from the
\* counting on, resolve_jobs returns the window start .. start+length-1 of
\* the concatenation of the partitions' entries, in the caller's order.
C2_WindowOfConcatenation ==
    (Done /\ length > 0 /\ ~Truthy(search_query) /\ mutations = <<>>)
        => /\ response.kind = "list"
           /\ response.data = Window(Concatenation(store, requested), start, length)

\* counts [1, 0, 1], start 0, length 2: the entry of the first partition,
\* then the first entry of the third
C2_Witness ==
    /\ Done /\ mutations = <<>> /\ ~Truthy(search_query)
    /\ Len(job_counts) = 3
    /\ job_counts[1].count = 1 /\ job_counts[2].count = 0 /\ job_counts[3].count = 1
    /\ start = 0 /\ length = 2
    /\ response.data = Entries(store, job_counts[1].queue, job_counts[1].registry)
                       \o Entries(store, job_counts[3].queue, job_counts[3].registry)
    /\ Len(response.data) = 2

\* C3: a start at or past the sum of the counts gives the empty list, no
\* error and no listing of any partition; so does the empty partition list.
C3_PastTheEnd ==
    (caller = "direct" /\ pc \notin {"count"} /\ start >= TotalCount(job_counts))
        => /\ pc = "done"
           /\ response = [kind |-> "list", data |-> <<>>]
           /\ fetched = <<>>

C3_Witness ==
    /\ Done
    /\ job_counts # <<>>
    /\ TotalCount(job_counts) > 0
    /\ start = TotalCount(job_counts)
    /\ response = [kind |-> "list", data |-> <<>>]

\* C4: for 0 <= start < total, find_start_block returns the first block whose
\* cumulative count exceeds start, and the offset of start within it.
C4_StartBlock ==
    (pc = "located" /\ start < TotalCount(job_counts))
        => /\ start_block \in 0..(Len(job_counts) - 1)
           /\ CumulativeCount(job_counts, start_block + 1) > start
           /\ \A i \in 0..(start_block - 1) : CumulativeCount(job_counts, i + 1) <= start
           /\ cursor = start - CumulativeCount(job_counts, start_block)
           /\ 0 <= cursor /\ cursor < job_counts[start_block + 1].count
           /\ job_counts[start_block + 1].count # 0

\* counts [3, 0, 5], start 3: the empty block is passed over
C4_Witness ==
    /\ pc = "located"
    /\ [k \in 1..Len(job_counts) |-> job_counts[k].count] = <<3, 0, 5>>
    /\ start = 3
    /\ start_block = 2 /\ cursor = 0

\* C5, as claimed: every cursor find_start_block returns, the sentinel too,
\* has a block index >= -1 and an offset >= 0.
C5_OffsetNeverNegative == pc = "located" => (start_block >= -1 /\ cursor >= 0)

\* C5, amended: the block index is >= -1; a cursor into a block has an offset
\* >= 0 within that block's count; the sentinel is (-1, -1).
C5_CursorRange ==
    pc = "located"
        => /\ start_block >= -1
           /\ start_block >= 0
                => (0 <= cursor /\ cursor < job_counts[start_block + 1].count)
           /\ start_block = -1 => (cursor = -1 /\ start >= TotalCount(job_counts))

C5_Witness ==
    /\ pc = "located"
    /\ job_counts # <<>> /\ TotalCount(job_counts) > 0
    /\ start_block = -1 /\ cursor = -1


\* C6: over a list of distinct partitions, when the workers only remove
\* entries after the counting, resolve_jobs raises no error and returns no
\* job id twice.
C6_NoDuplicateUnderRemoval ==
    (Done /\ NoDuplicates(requested) /\ \A k \in 1..Len(mutations) : mutations[k] = "remove")
        => /\ response.kind = "list"
           /\ NoDuplicates(response.data)

\* a removal left a partition short of its count, and the walk went on into
\* the next partition
C6_Witness ==
    /\ Done /\ NoDuplicates(requested)
    /\ mutations = <<"remove">>
    /\ Len(fetched) >= 2
    /\ TotalCount(job_counts) - start >= length
    /\ Len(response.data) < length
    /\ response.data # <<>>

\* C7: for every length <= 0 resolve_jobs rejects the call or returns the
\* empty list, the same for every such length.
C7_NonPositiveLength ==
    (Done /\ length <= 0) => (response.kind = "rejected" \/ response.data = <<>>)

\* s occurs in text at some position
IsSubstring(s, text) ==
    \E i \in 0..(Len(text) - Len(s)) : SubSeq(text, i + 1, i + Len(s)) = s

\* the search predicate of the specification
Accepts(job, query) ==
    \/ query.none
    \/ query.text = <<>>
    \/ IsSubstring(query.text, Str(args(job)))
    \/ IsSubstring(query.text, func_name(job))

\* C8: when an id that was listed no longer resolves at the time the records
\* are fetched, the fetch raises no error and yields the resolvable, matching
\* records of the listing, in the listing's order, and no None.
C8_FetchToleratesMissing ==
    [][(pc = "fetch" /\ pc' # "fetch")
         => LET got == SubSeq(jobs', Len(jobs) + 1, Len(jobs'))
            IN /\ got = SelectSeq(job_ids,
                           LAMBDA id : id \in Records(store) /\ Accepts(id, search_query))
               /\ \A k \in 1..Len(got) : got[k] # None
               /\ response'.kind \in {"none", "list"}]_vars

\* the last listing holds an id a worker removed before its records were
\* fetched, and a job of the same listing was returned
C8_Witness ==
    /\ Done
    /\ mutations = <<"remove">>
    /\ \E k \in 1..Len(job_ids) : job_ids[k] \notin Records(store)
    /\ jobs # <<>>
    /\ \E k \in 1..Len(job_ids) : job_ids[k] = jobs[Len(jobs)]

\* C9: the search predicate accepts a job exactly when the query is absent or
\* empty, or occurs, case kept, in the str of the positional arguments or in
\* the function name; the filtered list is the accepted jobs in their order.
C9_SearchPredicate ==
    pc = "searched"
        => /\ \A k \in 1..Len(job_ids) :
                  apply_job_search(job_ids[k], search_query) <=> Accepts(job_ids[k], search_query)
           /\ jobs = SelectSeq(job_ids, LAMBDA job : Accepts(job, search_query))

\* query "se": the job named "Se" with arguments ('s',) is rejected, the job
\* with arguments ('se',) is accepted
C9_Witness ==
    /\ pc = "searched"
    /\ search_query = Query(<<"s", "e">>)
    /\ job_ids = <<3, 4>>
    /\ jobs = <<4>>

\* C10: a job listing request with a search query returns a page whose jobs
\* all satisfy the search predicate for that query.
C10_PageMatchesSearch ==
    (pc = "done" /\ caller = "api" /\ Truthy(search))
        => /\ response.kind = "page"
           /\ \A k \in 1..Len(response.data) : Accepts(response.data[k], search)

(***************************************************************************)
(* delete_workers: what the claims speak of.                               *)
(***************************************************************************)
\* the positions of the list of workers
Positions == 1..Len(worker_instances)

\* the loop has taken the worker at position i and left it
Left(i) == i \in Positions /\ dispatch[i] # "pending"

RemoteWorker(i) ==
    /\ i \in Positions
    /\ ~worker_instances[i].none
    /\ ~worker_instances[i].hostname.none
    /\ worker_instances[i].hostname.text # gethostname

LocalWorker(i) ==
    /\ i \in Positions
    /\ ~worker_instances[i].none
    /\ ~worker_instances[i].hostname.none
    /\ worker_instances[i].hostname.text = gethostname

\* nothing of SSH was done for the worker at position i
NoSshFor(i) ==
    /\ \A k \in 1..Len(ssh_loads) : ssh_loads[k] # i
    /\ \A k \in 1..Len(sessions) : sessions[k].worker # i
    /\ \A k \in 1..Len(commands) : commands[k].worker # i

\* the calls of os.kill made for the worker at position i
OsKillsFor(i) == SelectSeq(os_kills, LAMBDA call : call.worker = i)

Over == dpc \in {"returned", "raised"}

SessionsFor(i) == SelectSeq(sessions, LAMBDA session : session.worker = i)

CommandsFor(i) == SelectSeq(commands, LAMBDA run : run.worker = i)

\* the remote command that was run last
LastCommand == commands[Len(commands)]

\* the remote command that was run last exited with an error
CommandFailed(program) ==
    /\ commands # <<>>
    /\ LastCommand.command.program = program
    /\ LastCommand.exited > 0

PermissionText(text) == IsSubstring(OperationNotPermitted, text)

\* C12: a worker on another host for which no SSH host entry has the
\* worker's address ends in a failure that the caller is given and that is
\* not a success, and no SSH session is attempted for it.
C12_NoMatchingHostSurfaced ==
    \A i \in Positions :
        (RemoteWorker(i) /\ dispatch[i] = "fell_through") =>
            /\ SessionsFor(i) = <<>>
            /\ Over => api_response.kind = "error"

\* C13: a worker whose hostname is absent ends in a failure that the caller
\* is given, not in a successful deletion, and no signal is delivered for
\* it, locally or remotely.
C13_AbsentHostnameSurfaced ==
    \A i \in Positions :
        (~worker_instances[i].none /\ worker_instances[i].hostname.none /\ Left(i)) =>
            /\ OsKillsFor(i) = <<>>
            /\ CommandsFor(i) = <<>>
            /\ Over => api_response.kind = "error"

C15_SessionFailureClassified ==
    \A i \in Positions :
        (SessionsFor(i) # <<>> /\ ~SessionsFor(i)[1].established) =>
            /\ CommandsFor(i) = <<>>
            /\ raised.type = "RQMonitorException"
            /\ api_response.kind = "error"

\* C16: when the kill command fails and its stderr has no permission text,
\* the dispatch ends in the failure of the command, which carries the stdout
\* and the stderr of the command, and neither in the failure of ownership
\* nor delivered; when the kill command succeeds the dispatch ends
\* delivered.
C16_KillOutcome ==
    (commands # <<>> /\ LastCommand.command.program = "kill" /\ dpc # "waiting") =>
        LET i == LastCommand.worker
        IN /\ LastCommand.exited = 0 =>
                  /\ dpc = "returned"
                  /\ dispatch[i] = "returned"
                  /\ raised = NoException
                  /\ api_response.kind = "success"
           /\ (LastCommand.exited > 0 /\ ~PermissionText(LastCommand.stderr)) =>
                  /\ dpc = "raised"
                  /\ dispatch[i] = "raised"
                  /\ raised.type = "RQMonitorException"
                  /\ raised.template = "unexpected_exit"
                  /\ IsSubstring(Strip(LastCommand.stdout), raised.stdout)
                  /\ IsSubstring(Strip(LastCommand.stderr), raised.stderr)
                  /\ api_response.kind = "error"

\* a kill failed for another reason than permission, and the failure of the
\* command carries what it printed
C16_Witness ==
    /\ CommandFailed("kill")
    /\ ~PermissionText(LastCommand.stderr)
    /\ LastCommand.stderr # <<>>
    /\ raised.template = "unexpected_exit"
    /\ IsSubstring(<<"No", " ", "such", " ", "process">>, raised.stderr)

\* C17: every dispatch reaches a terminal state: a call of delete_workers
\* that is not over can take a step, also when the remote host does not
\* answer.
C17_DispatchTerminates == dpc \in {"call", "loop", "hostnames", "ps", "kill", "waiting"} =>
    ENABLED NextDispatch

\* C19: a worker id with no record in the store is reported as not found:
\* no exception other than the failures delete_workers raises itself leaves
\* it, and no signal is delivered for that id.
C19_NotFoundReported ==
    \A i \in Positions :
        (worker_instances[i].none /\ Left(i)) =>
            /\ OsKillsFor(i) = <<>>
            /\ CommandsFor(i) = <<>>
            /\ raised.type \in {"", "RQMonitorException"}
            /\ api_response.kind # "unhandled"

(***************************************************************************)
(* job_count_in_queue_registry: what the claim speaks of.                  *)
(***************************************************************************)
\* the queue of the store that a queue name stands for, "" when there is none
QueueNamed(queue) ==
    IF queue \in {"q1", "rq:queue:q1"} THEN "q1" ELSE ""

\* the status that a registry argument stands for, "" when it is none of the six
StatusNamed(registry) ==
    CASE registry \in {"queued", "started", "finished", "failed", "deferred", "scheduled"} ->
             registry
      [] registry = "StartedJobRegistry" -> "started"
      [] registry = "FinishedJobRegistry" -> "finished"
      [] registry = "FailedJobRegistry" -> "failed"
      [] registry = "DeferredJobRegistry" -> "deferred"
      [] registry = "ScheduledJobRegistry" -> "scheduled"
      [] OTHER -> ""

\* the jobs the store lists under a queue and a status
Listed(queue, status) ==
    {job \in JobIds :
        \E p \in DOMAIN store :
            /\ p.queue = queue
            /\ p.registry = status
            /\ \E k \in 1..Len(store[p]) : store[p][k] = job}

FailedAttempts == SelectSeq(attempts, LAMBDA attempt : attempt.error # "")

\* C18: when the clear of one partition of a bulk clear over several
\* partitions fails, every partition is attempted, every other partition
\* ends up cleared, and the caller is given the number of partitions
\* attempted and the number of failures.
C18_BulkClearGoesOn ==
    (pc = "done" /\ Len(requested) > 1 /\ Len(FailedAttempts) = 1) =>
        /\ Len(attempts) = Len(requested)
        /\ \A k \in 1..Len(requested) :
               (k > Len(attempts) \/ attempts[k].error = "") =>
                   Entries(store, requested[k].queue, requested[k].registry) = <<>>
        /\ response.data = <<Len(requested), Len(FailedAttempts)>>

(***************************************************************************)
(* The walk under workers: what the later claims speak of.                 *)
(***************************************************************************)
\* the blocks name partitions that differ from one another
DistinctBlocks ==
    \A a, b \in 1..Len(job_counts) :
        (job_counts[a].queue = job_counts[b].queue
            /\ job_counts[a].registry = job_counts[b].registry) => a = b

\* C21: when a block yields fewer jobs at its fetch than its count implied
\* from the cursor on, also when the cursor lies past the end of the
\* partition, the walk keeps what it has and goes on with the next block at
\* offset 0 until the page is full or the blocks are over; it gives no
\* error, and the counts are not read again during the walk.
C21_ShortfallAbsorbed ==
    [][/\ pc \in {"list", "fetch"} => job_counts' = job_counts
       /\ (pc = "fetch" /\ pc' # "fetch" /\ caller = "direct"
              /\ Len(jobs') - Len(jobs) < job_counts[block_index + 1].count - cursor) =>
              /\ SubSeq(jobs', 1, Len(jobs)) = jobs
              /\ cursor' = 0
              /\ IF Len(jobs') < length /\ block_index + 1 < Len(job_counts)
                 THEN /\ pc' = "list"
                      /\ block_index' = block_index + 1
                      /\ response' = NoResponse
                 ELSE /\ pc' = "done"
                      /\ response'.kind = "list"]_vars

\* the cursor was located at position 1 of a block that counted 2 jobs, a
\* worker took a job away, the block yielded nothing and the walk is at the
\* next block, at offset 0
C21_Witness ==
    /\ caller = "direct"
    /\ pc = "list"
    /\ start = 1
    /\ start_block >= 0
    /\ job_counts[start_block + 1].count = 2
    /\ mutations # <<>>
    /\ block_index = start_block + 1
    /\ cursor = 0
    /\ jobs = <<>>

\* the blocks that lie after the start block and before the block the walk
\* fetched last, and counted no job
SkippableBlocks ==
    {k \in 0..(Len(job_counts) - 1) :
        /\ fetched # <<>>
        /\ start_block < k
        /\ k < fetched[Len(fetched)]
        /\ job_counts[k + 1].count = 0}

WasFetched(k) == \E n \in 1..Len(fetched) : fetched[n] = k

\* the jobs a partition lists
ListedBy(block) ==
    {job \in JobIds :
        \E n \in 1..Len(Entries(store, block.queue, block.registry)) :
            Entries(store, block.queue, block.registry)[n] = job}

InResponse(job) == \E n \in 1..Len(response.data) : response.data[n] = job

\* C22 as stated: a block that counted 0 and lies between the start block
\* and the block where the page was filled is skipped: no fetch is issued
\* against it and none of its entries is in the result.
C22_ZeroCountSkipped ==
    Done => \A k \in SkippableBlocks :
                /\ ~WasFetched(k)
                /\ \A job \in ListedBy(job_counts[k + 1]) : ~InResponse(job)

\* C22, amended: the walk lists every block from the start block on, one
\* after the other and whatever its count, so a block that counted 0 and
\* lies between the start block and the block where the page was filled is
\* fetched too; none of its entries is in the result unless a worker added
\* entries to it after the count.
C22_ZeroCountListed ==
    /\ \A n \in 1..Len(fetched) : fetched[n] = start_block + n - 1
    /\ Done => \A k \in SkippableBlocks :
                   /\ WasFetched(k)
                   /\ (DistinctBlocks
                         /\ \A n \in 1..Len(mutations) : mutations[n] = "remove") =>
                          \A job \in ListedBy(job_counts[k + 1]) : ~InResponse(job)

\* counts 1, 0, 1 in a store at rest: the page of two jobs was filled from
\* the first and the third block, and the second was fetched between them
C22_Witness ==
    /\ Done
    /\ mutations = <<>>
    /\ Len(job_counts) = 3
    /\ job_counts[1].count = 1
    /\ job_counts[2].count = 0
    /\ job_counts[3].count = 1
    /\ fetched = <<0, 1, 2>>
    /\ Len(response.data) = 2

\* C28: while workers move jobs from one partition to another between two
\* fetches of the walk, the result of a call over distinct partitions holds
\* no job more than once.
C28_NoDuplicateUnderMoves ==
    (Done /\ DistinctBlocks /\ response.kind = "list") => NoDuplicates(response.data)

(***************************************************************************)
(* delete_workers: what the later claims speak of.                         *)
(***************************************************************************)
KillsFor(i) ==
    SelectSeq(commands, LAMBDA run : run.worker = i /\ run.command.program = "kill")

\* C23: a remote kill command is issued only after a session was opened to
\* a host entry whose address is the resolved address of the worker's host,
\* and after the query of the owner of the worker's pid succeeded on that
\* session: the command before every kill is that query, with exit code 0.
C23_KillAfterOwnerQuery ==
    \A k \in 1..Len(commands) :
        commands[k].command.program = "kill" =>
            LET run == commands[k]
                i == run.worker
            IN /\ RemoteWorker(i)
               /\ run.command.pid = worker_instances[i].pid
               /\ \E n \in 1..Len(sessions) :
                      /\ sessions[n].worker = i
                      /\ sessions[n].alias = run.alias
                      /\ sessions[n].established
               /\ \E n \in 1..Len(ssh_config) :
                      /\ ssh_config[n].alias = run.alias
                      /\ ssh_config[n].hostname =
                             gethostbyname(worker_instances[i].hostname.text).ip
               /\ k > 1
               /\ commands[k - 1].worker = i
               /\ commands[k - 1].alias = run.alias
               /\ commands[k - 1].command.program = "ps -o user= -p"
               /\ commands[k - 1].command.pid = worker_instances[i].pid
               /\ commands[k - 1].exited = 0

\* a kill was issued and succeeded
C23_Witness ==
    /\ commands # <<>>
    /\ LastCommand.command.program = "kill"
    /\ LastCommand.exited = 0
    /\ Len(ssh_config) = 2

\* C24: when delete_workers has returned, every worker of its list was
\* attempted, whatever the outcome of the workers before it.
C24_EveryWorkerAttempted ==
    dpc = "returned" => \A i \in Positions : Left(i)

\* C26: for one worker at most one SSH session is opened and at most one
\* kill command is issued, however many host entries have the worker's
\* address; a delivery that failed ends delete_workers and is not tried
\* again.
C26_NoRetry ==
    \A i \in Positions :
        /\ Len(SessionsFor(i)) <= 1
        /\ Len(KillsFor(i)) <= 1
        /\ dispatch[i] = "raised" => dpc = "raised"

\* two host entries have the address of the worker's host, the kill over
\* the first failed, and no second session was opened
C26_Witness ==
    \E i \in Positions :
        /\ Len(ssh_config) = 2
        /\ \A n \in 1..2 : ssh_config[n].hostname = required_host_ip
        /\ dispatch[i] = "raised"
        /\ Len(KillsFor(i)) = 1
        /\ KillsFor(i)[1].exited > 0
        /\ Len(SessionsFor(i)) = 1


\* the rounds of the requeue that ended with an error
FailedRequeues == SelectSeq(attempts, LAMBDA attempt : attempt.error # "")

\* C25: requeue_all_jobs_in_failed_registry goes through every id of the
\* failed registry of every given queue, whatever the requeue of one id
\* ended with, and returns the number of requeues that failed
C25_RequeueGoesOn ==
    (pc = "done" /\ attempts # <<>>) =>
        /\ response.kind = "count"
        /\ queue_index = Len(requested_queues)
        /\ job_ids = <<>>
        /\ response.data = <<Len(FailedRequeues)>>


\* the registry an empty_registry call was made for
EmptiedPart == [queue |-> attempts[1].queue, registry |-> attempts[1].registry]

\* C27: empty_registry removes every entry of the registry in one step: at
\* its return the registry is empty, the job key and the dependents key of
\* every entry it held are deleted, every other partition is as it was, and
\* the number returned is the number of entries the registry held
C27_EmptiedAtOnce ==
    [][(pc = "empty" /\ pc' = "emptied" /\ response'.kind = "count") =>
        LET part == EmptiedPart'
            before == Entries(store, part.queue, part.registry)
        IN /\ Entries(store', part.queue, part.registry) = <<>>
           /\ \A k \in 1..Len(before) :
                  /\ JobKey(before[k]) \notin job_keys'
                  /\ DependentsKey(before[k]) \notin job_keys'
           /\ \A p \in DOMAIN store : p # part => store'[p] = store[p]
           /\ response'.data = <<Len(before)>>]_vars

\* a registry that a worker had added a job to was emptied of its two jobs,
\* or of one while another partition kept the other with its keys
C27_Witness ==
    /\ pc = "emptied"
    /\ response.kind = "count"
    /\ mutations # <<>>
    /\ \/ response.data = <<2>>
       \/ /\ response.data = <<1>>
          /\ Records(store) # {}
          /\ DependentsKey(CHOOSE job \in Records(store) : TRUE) \in job_keys


\* the entries at the positions first..last of a list, counted from 0, and
\* those from first on when last is -1
Selected(entries, first, last) ==
    LET hi == IF last = -1 THEN Len(entries) ELSE Min(last + 1, Len(entries))
    IN [k \in 1..Max(hi - first, 0) |-> entries[first + k]]

\* the store with the contents of its partitions held by a registry
AsRegistry(st, registry) ==
    [p \in {[queue |-> q.queue, registry |-> registry] : q \in DOMAIN st} |->
        st[CHOOSE q \in DOMAIN st : q.queue = p.queue]]

\* C30: for the queue as for a registry, list_jobs_in_queue_registry(start,
\* end) gives the entries at the positions start..end when end is not -1 and
\* those from start on when it is, and for the queue what it gives for a
\* registry with the same contents
C30_QueuedAsRegistry ==
    pc = "ranged" =>
        LET queue == requested_queues[1]
            registry == requested_job_status[1]
        IN /\ jobs = Selected(Entries(store, queue, registry), start, end)
           /\ registry = "queued" =>
                  jobs = list_jobs_of_ids("started",
                             list_job_ids(AsRegistry(store, "started"), queue, "started",
                                          start, end),
                             Records(store), search_query)

\* the queue held three jobs and was listed from its second to its third, or
\* from its second on
C30_Witness ==
    /\ pc = "ranged"
    /\ requested_job_status = <<"queued">>
    /\ Len(Entries(store, "q1", "queued")) = 3
    /\ start = 1
    /\ end \in {2, -1}
    /\ Len(jobs) = 2


RECURSIVE PagesRead(_)
\* the jobs of the pages read, one page after the other
PagesRead(read) ==
    IF read = <<>> THEN <<>> ELSE Head(read).data \o PagesRead(Tail(read))

\* the pages read reach the end of what was counted
PagesComplete ==
    /\ pages # <<>>
    /\ pc = "count"
    /\ Len(job_counts) = Len(requested)
    /\ Len(pages) * length >= TotalCount(job_counts)

\* the jobs of the selected partitions that the search query matches
Matching ==
    {job \in JobIds :
        /\ \E k \in 1..Len(Concatenation(store, requested)) :
               Concatenation(store, requested)[k] = job
        /\ apply_job_search(job, search)}

\* C29: with a search query and a store that does not change, the pages for
\* start = 0, length, 2 * length, ... hold no job more than once between
\* them and hold every job of the selected partitions that matches
C29_PagesPartition ==
    PagesComplete =>
        /\ NoDuplicates(PagesRead(pages))
        /\ \A job \in Matching :
               \E k \in 1..Len(PagesRead(pages)) : PagesRead(pages)[k] = job

====
